---- MODULE Spec2Model ----
(***************************************************************************)
(* A model of dfu-nusb: the transport adapter of src/src/lib.rs and the    *)
(* download workflow of src/examples/download.rs.                          *)
(*                                                                         *)
(* The DFU protocol engine (dfu_core), the USB transport (nusb) and the    *)
(* progress bar (indicatif) are external libraries.  Their calls are       *)
(* modelled at the call sites: every outcome a call can have is a          *)
(* nondeterministic choice of the action that makes the call.              *)
(*                                                                         *)
(* Specifications:                                                         *)
(*   Spec            one invocation of run (download.rs)                   *)
(*   SpecTryOpen     one call of try_open over an enumerated bus           *)
(*   SpecReadControl one call of the suspending read_control               *)
(*   SpecClassifier  split_request_type over every request-type byte       *)
(*   SpecDfuOpen     one call of DfuNusb::open over an interface           *)
(*   SpecAdapter     one adapter operation made through DfuIo and          *)
(*                   through DfuAsyncIo over the same transport            *)
(*   SpecParseAddress  parse_address over short strings and the examples   *)
(*   SpecFlight      run from the download on, at the grain of the         *)
(*                   adapter operations issued and completed               *)
(***************************************************************************)
EXTENDS Integers, Sequences, FiniteSets, TLC

VARIABLES
    pc,             \* run: the position in run
    wait,           \* run: Cli.wait
    reset,          \* run: Cli.reset
    file_size,      \* run: the firmware size determined at lines 69-70
    result,         \* run: what run returned, [ret, err, ctx]
    openResult,     \* run: the result of the latest try_open attempt
    attempts,       \* run: number of try_open attempts made
    notFound,       \* run: number of attempts that returned DeviceNotFound
    sleeps,         \* run: number of 250 ms polling delays performed
    bar,            \* run: the transfer progress bar, [pos, len, finished]
    counts,         \* run: the counts handed to the progress callback, in order
    completedAt,    \* run: for each time the bar became finished, where it did
    downloadResult, \* run: what device.download returned
    issued,         \* run: requests made after the download, [op, ok], in order
    bus,            \* try_open: the devices list_devices enumerates
    target,         \* try_open: the <<vid, pid>> asked for
    opened,         \* try_open: what the call did, [result, selected, opened, claimed]
    buffer,         \* read_control: the caller's buffer
    response,       \* read_control: the bytes the transport returns
    ioResult,       \* read_control: [res, n, before, req]
    request_type,   \* split_request_type: the request-type byte
    split,          \* split_request_type: the decoded pair
    dfuIn,          \* DfuNusb::open: [iface, alt, langs, str]
    dfuOut,         \* DfuNusb::open: [result, fdFrom, altIdx, s]
    adapter,        \* DfuIo and DfuAsyncIo: one call made through both
    flight,         \* run: the adapter operations in flight
    addr            \* parse_address: [s, out]

vars == <<pc, wait, reset, file_size, result, openResult, attempts, notFound,
          sleeps, bar, counts, completedAt, downloadResult, issued,
          bus, target, opened, buffer, response, ioResult, request_type, split,
          dfuIn, dfuOut, adapter, flight, addr>>

runVars == <<pc, wait, reset, file_size, result, openResult, attempts, notFound,
             sleeps, bar, counts, completedAt, downloadResult, issued>>
openVars == <<bus, target, opened>>
ioVars == <<buffer, response, ioResult>>
clsVars == <<request_type, split>>
extVars == <<dfuIn, dfuOut, adapter, flight, addr>>
notRun == <<openVars, ioVars, clsVars, extVars>>

----------------------------------------------------------------------------
(* Bounds of the model *)

MaxSize == 3        \* firmware sizes 0..MaxSize
MaxChunk == 2       \* a progress callback reports 0..MaxChunk bytes
MaxCalls == 4       \* progress callbacks per download
MaxAttempts == 4    \* try_open attempts per run
MaxDevices == 2     \* devices on the enumerated bus
MaxId == 2          \* vendor and product identifiers 1..MaxId
MaxAlts == 2        \* alternate settings of the claimed interface
MaxIoLen == 2       \* bytes of a buffer or a response of an adapter call
MaxLatency == 4     \* seconds a device takes to answer a control transfer
MaxOps == 4         \* control transfers the engine makes in one download
MaxStr == 4         \* characters of an address string, the examples apart
MaxBuf == 4         \* read_control buffer lengths 0..MaxBuf
MaxResp == 8        \* transport response lengths 0..MaxResp

\* lib.rs 127, 148: Duration::from_secs(3), the timeout of a blocking transfer
TimeoutSecs == 3

(* Program constants *)

RequestTypes == 0..255

Min(a, b) == IF a <= b THEN a ELSE b

SeqsUpTo(S, n) == UNION {[1..k -> S] : k \in 0..n}

RECURSIVE Sum(_)
Sum(s) == IF s = <<>> THEN 0 ELSE s[1] + Sum(Tail(s))

----------------------------------------------------------------------------
(* Error: the variants of dfu_nusb::Error *)

ErrorVariants ==
    {"DeviceNotFound", "FunctionalDescriptorNotFound", "AltSettingNotFound",
     "FunctionalDescriptor", "Dfu", "Nusb", "Transfer"}

----------------------------------------------------------------------------
(* split_request_type, lib.rs 85-101 *)

\* split_request_type with the recipient masked by 0x0f
split_request_type_mask0f(rt) ==
    << CASE (rt \div 32) % 4 = 0 -> "Standard"
         [] (rt \div 32) % 4 = 1 -> "Class"
         [] (rt \div 32) % 4 = 2 -> "Vendor"
         [] OTHER -> "Standard",
       CASE rt % 16 = 0 -> "Device"
         [] rt % 16 = 1 -> "Interface"
         [] rt % 16 = 2 -> "Endpoint"
         [] rt % 16 = 3 -> "Other"
         [] OTHER -> "Device" >>

\* lib.rs 85-101: request_type >> 5 & 0x03 and request_type & 0x1f
split_request_type(rt) ==
    << CASE (rt \div 32) % 4 = 0 -> "Standard"
         [] (rt \div 32) % 4 = 1 -> "Class"
         [] (rt \div 32) % 4 = 2 -> "Vendor"
         [] OTHER -> "Standard",
       CASE rt % 32 = 0 -> "Device"
         [] rt % 32 = 1 -> "Interface"
         [] rt % 32 = 2 -> "Endpoint"
         [] rt % 32 = 3 -> "Other"
         [] OTHER -> "Device" >>

----------------------------------------------------------------------------
(* The suspending read_control, lib.rs 173-193 *)

\* CopyLen as the length of the response alone
CopyLenOfResponse(buf, resp) == Len(resp)

\* lib.rs 190: buffer.len().min(r.len())
CopyLen(buf, resp) == Min(Len(buf), Len(resp))

\* lib.rs 181-188: the ControlIn request
ControlIn(rt, request, value, ifnum, buf) ==
    [control_type |-> split_request_type(rt)[1],
     recipient |-> split_request_type(rt)[2],
     request |-> request,
     value |-> value,
     index |-> ifnum,
     length |-> Len(buf) % 65536]

\* lib.rs 173-193.  transferOk: whether the control transfer succeeds; resp:
\* the bytes it returns.  A slice that ends past the buffer or the response
\* panics (lib.rs 191).
read_control(buf, rt, request, value, ifnum, transferOk, resp) ==
    LET req == ControlIn(rt, request, value, ifnum, buf) IN
    IF ~transferOk
    THEN [res |-> "Transfer", n |-> 0, buffer |-> buf, req |-> req]
    ELSE LET len == CopyLen(buf, resp) IN
         IF len > Len(buf) \/ len > Len(resp)
         THEN [res |-> "Panic", n |-> 0, buffer |-> buf, req |-> req]
         ELSE [res |-> "Ok", n |-> len,
               buffer |-> [i \in 1..Len(buf) |-> IF i <= len THEN resp[i] ELSE buf[i]],
               req |-> req]

----------------------------------------------------------------------------
(* DfuNusb::open, lib.rs 39-72 *)

\* One alternate setting of the claimed interface: its number, what the search
\* of its descriptors for a functional descriptor gives (lib.rs 44-45: nothing,
\* one that parses, one that does not), and its string index (0: none).
AltSettings == [num : 0..(MaxAlts - 1), fd : {"none", "ok", "bad"}, strIdx : {0, 1}]

Interfaces == [setAltOk : BOOLEAN, alts : SeqsUpTo(AltSettings, MaxAlts)]

\* get_string_descriptor_supported_languages: an error, no language, a language
LangResults == {"err", "empty", "some"}

\* get_string_descriptor: an error or the interface string
StringResults == {"err", "Flash", "@Internal Flash /0x08000000/64*002Kg", "@Flash /"}

\* lib.rs 41-46: the first functional descriptor found, the alternate settings
\* taken in the interface's order
RECURSIVE FindFunctionalDescriptor(_)
FindFunctionalDescriptor(alts) ==
    IF alts = <<>> THEN "none"
    ELSE IF alts[1].fd # "none" THEN alts[1].fd
    ELSE FindFunctionalDescriptor(Tail(alts))

\* lib.rs 48-50: the index of the first alternate setting numbered alt, 0: none
RECURSIVE FindAltFrom(_, _, _)
FindAltFrom(alts, alt, i) ==
    IF i > Len(alts) THEN 0
    ELSE IF alts[i].num = alt THEN i
    ELSE FindAltFrom(alts, alt, i + 1)

FindAlt(alts, alt) == FindAltFrom(alts, alt, 1)

\* lib.rs 64: DfuProtocol::new fails on an interface string that announces a
\* memory layout ("@...") and does not parse as one
ProtocolNew(s) == IF s = "@Flash /" THEN "Dfu" ELSE "Ok"

\* lib.rs 53-63: the interface string, [err, s]
InterfaceString(strIdx, langs, str) ==
    IF strIdx # 0
    THEN IF langs = "err"
         THEN [err |-> "Nusb", s |-> ""]
         ELSE [err |-> "Ok", s |-> IF str = "err" THEN "" ELSE str]
    ELSE [err |-> "Ok", s |-> ""]

\* lib.rs 41-46: the place of the alternate setting whose functional
\* descriptor FindFunctionalDescriptor finds, 0: none
RECURSIVE FunctionalDescriptorFrom(_, _)
FunctionalDescriptorFrom(alts, i) ==
    IF i > Len(alts) THEN 0
    ELSE IF alts[i].fd # "none" THEN i
    ELSE FunctionalDescriptorFrom(alts, i + 1)

\* What a call of DfuNusb::open did: its result, the place of the alternate
\* setting whose functional descriptor it took (0: none), the place of the
\* alternate setting found by number (0: none, or not looked up), the
\* interface string handed to DfuProtocol::new, and how far it came
OpenDid(r, fdFrom, altIdx, s, step) ==
    [result |-> r, fdFrom |-> fdFrom, altIdx |-> altIdx, s |-> s, step |-> step]

\* DfuNusbOpenSteps looking the alternate setting up before the functional
\* descriptor
DfuNusbOpenAltFirst(iface, alt, langs, str) ==
    IF ~iface.setAltOk THEN OpenDid("Nusb", 0, 0, "", "set_alt_setting")
    ELSE LET a == FindAlt(iface.alts, alt)
             fd == FindFunctionalDescriptor(iface.alts)
             from == FunctionalDescriptorFrom(iface.alts, 1) IN
         IF a = 0 THEN OpenDid("AltSettingNotFound", 0, 0, "", "alt")
         ELSE IF fd = "none"
         THEN OpenDid("FunctionalDescriptorNotFound", 0, a, "", "descriptor")
         ELSE IF fd = "bad"
         THEN OpenDid("FunctionalDescriptor", from, a, "", "descriptor")
         ELSE LET s == InterfaceString(iface.alts[a].strIdx, langs, str) IN
              IF s.err # "Ok" THEN OpenDid(s.err, from, a, "", "string")
              ELSE OpenDid(ProtocolNew(s.s), from, a, s.s, "protocol")

\* DfuNusbOpenSteps searching only the requested alternate setting for the
\* functional descriptor
DfuNusbOpenRequestedAltOnly(iface, alt, langs, str) ==
    IF ~iface.setAltOk THEN OpenDid("Nusb", 0, 0, "", "set_alt_setting")
    ELSE LET a == FindAlt(iface.alts, alt)
             fd == IF a = 0 THEN "none" ELSE iface.alts[a].fd IN
         IF fd = "none"
         THEN OpenDid("FunctionalDescriptorNotFound", 0, 0, "", "descriptor")
         ELSE IF fd = "bad"
         THEN OpenDid("FunctionalDescriptor", a, 0, "", "descriptor")
         ELSE LET s == InterfaceString(iface.alts[a].strIdx, langs, str) IN
              IF s.err # "Ok" THEN OpenDid(s.err, a, a, "", "string")
              ELSE OpenDid(ProtocolNew(s.s), a, a, s.s, "protocol")

\* lib.rs 39-72, step by step
DfuNusbOpenSteps(iface, alt, langs, str) ==
    IF ~iface.setAltOk THEN OpenDid("Nusb", 0, 0, "", "set_alt_setting")
    ELSE LET fd == FindFunctionalDescriptor(iface.alts)
             from == FunctionalDescriptorFrom(iface.alts, 1) IN
         IF fd = "none"
         THEN OpenDid("FunctionalDescriptorNotFound", 0, 0, "", "descriptor")
         ELSE IF fd = "bad"
         THEN OpenDid("FunctionalDescriptor", from, 0, "", "descriptor")
         ELSE LET a == FindAlt(iface.alts, alt) IN
              IF a = 0 THEN OpenDid("AltSettingNotFound", from, 0, "", "alt")
              ELSE LET s == InterfaceString(iface.alts[a].strIdx, langs, str) IN
                   IF s.err # "Ok" THEN OpenDid(s.err, from, a, "", "string")
                   ELSE OpenDid(ProtocolNew(s.s), from, a, s.s, "protocol")

\* lib.rs 39-72: "Ok" or the error variant
DfuNusbOpen(iface, alt, langs, str) == DfuNusbOpenSteps(iface, alt, langs, str).result

\* Every result DfuNusb::open can give
DfuOpenResults ==
    {DfuNusbOpen(i, a, l, s) :
        i \in Interfaces, a \in 0..(MaxAlts - 1), l \in LangResults, s \in StringResults}

----------------------------------------------------------------------------
(* try_open, download.rs 44-53 *)

Ids == 1..MaxId
DeviceInfos == [vid : Ids, pid : Ids]
Buses == SeqsUpTo(DeviceInfos, MaxDevices)

\* Matches comparing the vendor identifier alone
MatchesVendorOnly(dev, vid, pid) == dev.vid = vid

\* download.rs 47: the closure handed to find
Matches(dev, vid, pid) == dev.vid = vid /\ dev.pid = pid

\* download.rs 45-47: Iterator::find, the index of the first match, 0: none
RECURSIVE FindDeviceFrom(_, _, _, _)
FindDeviceFrom(devs, vid, pid, i) ==
    IF i > Len(devs) THEN 0
    ELSE IF Matches(devs[i], vid, pid) THEN i
    ELSE FindDeviceFrom(devs, vid, pid, i + 1)

\* download.rs 44-53.  listOk, openOk, claimOk: whether list_devices, info.open
\* and claim_interface succeed; dfu: what DfuNusb::open returns.  The result
\* is "Ok", an error variant, or "Panic" (the unwrap of line 46).
try_open(devs, vid, pid, listOk, openOk, claimOk, dfu) ==
    IF ~listOk
    THEN [result |-> "Panic", selected |-> 0, opened |-> FALSE, claimed |-> FALSE]
    ELSE LET i == FindDeviceFrom(devs, vid, pid, 1) IN
         IF i = 0
         THEN [result |-> "DeviceNotFound", selected |-> 0,
               opened |-> FALSE, claimed |-> FALSE]
         ELSE IF ~openOk
         THEN [result |-> "Nusb", selected |-> i, opened |-> FALSE, claimed |-> FALSE]
         ELSE IF ~claimOk
         THEN [result |-> "Nusb", selected |-> i, opened |-> TRUE, claimed |-> FALSE]
         ELSE [result |-> dfu, selected |-> i, opened |-> TRUE, claimed |-> TRUE]

\* Every result try_open can give
TryOpenResults ==
    {try_open(d, v, p, l, o, c, r).result :
        d \in Buses, v \in Ids, p \in Ids, l \in BOOLEAN, o \in BOOLEAN,
        c \in BOOLEAN, r \in DfuOpenResults}

----------------------------------------------------------------------------
(* The transfer progress bar of run, download.rs 95-113 *)

\* download.rs 95: ProgressBar::new(file_size)
BarNew(len) == [pos |-> 0, len |-> len, finished |-> FALSE]

\* BarInc as bar.set_position(count)
BarIncAsSet(b, count) == [b EXCEPT !.pos = count]

\* download.rs 108: bar.inc(count)
BarInc(b, count) == [b EXCEPT !.pos = @ + count]

\* download.rs 110, 128: bar.finish() marks the bar finished and moves its
\* position to its length
BarFinish(b) == [b EXCEPT !.pos = b.len, !.finished = TRUE]

\* ProgressCallback testing the position before adding the count
ProgressCallbackTestFirst(b, count, size) ==
    IF b.pos = size THEN BarFinish(BarInc(b, count)) ELSE BarInc(b, count)

\* ProgressCallback testing the position with <= in place of ==
ProgressCallbackAtMost(b, count, size) ==
    LET b1 == BarInc(b, count) IN
    IF b1.pos <= size THEN BarFinish(b1) ELSE b1

\* download.rs 107-112: the closure handed to with_progress
ProgressCallback(b, count, size) ==
    LET b1 == BarInc(b, count) IN
    IF b1.pos = size THEN BarFinish(b1) ELSE b1

\* The bar became finished in the step from b to b1
BecameFinished(b, b1) == ~b.finished /\ b1.finished

----------------------------------------------------------------------------
(* run, download.rs 55-142 *)

NoResult == [ret |-> "none", err |-> "none", ctx |-> "none"]
Ok == [ret |-> "Ok", err |-> "none", ctx |-> "none"]
Err(e, c) == [ret |-> "Err", err |-> e, ctx |-> c]
Panic == [ret |-> "Panic", err |-> "none", ctx |-> "none"]

\* download.rs 74: the guard of the arm that starts the wait loop
StartsWaiting(r, w) == r = "DeviceNotFound" /\ w

\* KeepsWaiting matching every error (Err(_) => bar.tick())
KeepsWaitingOnAnyError(r) == r \notin {"Ok", "Panic"}

\* download.rs 81: the arm that keeps the wait loop going
KeepsWaiting(r) == r = "DeviceNotFound"

\* AfterSleep with the delay left out of the loop
AfterSleepMissing(n) == n

\* download.rs 79: one polling delay per iteration, before its attempt
AfterSleep(n) == n + 1

\* download.rs 122: the guard of the arm that takes a download error for the
\* device having reset itself
\* IsSelfReset taking every error as benign once the bar is finished
IsSelfResetWhenFinished(e, finished) == finished

IsSelfReset(e, finished) == e = "Nusb" /\ finished

\* What makes device.download fail: a control transfer of the adapter
\* (lib.rs 189, 211), its usb_reset (lib.rs 216), or the engine itself
\* (a dfu_core::Error, lib.rs 23)
DownloadFailures == {"read_control", "write_control", "usb_reset", "engine"}

DownloadError(f) ==
    CASE f = "read_control" -> "Transfer"
      [] f = "write_control" -> "Transfer"
      [] f = "usb_reset" -> "Nusb"
      [] f = "engine" -> "Dfu"

\* download.rs 66-71: the file cannot be opened, a seek fails, the length is
\* over u32::MAX, or the length is read
FileOutcomes == {"open", "seek", "toobig", "ok"}

\* lengths of the firmware file that fit a u32
FileLengths == 0..MaxSize

RunInit ==
    /\ pc = "start"
    /\ wait \in BOOLEAN
    /\ reset \in BOOLEAN
    /\ file_size = 0
    /\ result = NoResult
    /\ openResult = "none"
    /\ attempts = 0
    /\ notFound = 0
    /\ sleeps = 0
    /\ bar = BarNew(0)
    /\ counts = <<>>
    /\ completedAt = <<>>
    /\ downloadResult = "none"
    /\ issued = <<>>

\* download.rs 66-71: open the firmware file and take its length
ReadFirmware ==
    /\ pc = "start"
    /\ \E f \in FileOutcomes, len \in FileLengths :
         IF f = "open"
         THEN /\ result' = Err("Io", "could not open firmware file")
              /\ pc' = "done"
              /\ UNCHANGED file_size
         ELSE IF f = "seek"
         THEN /\ result' = Err("Io", "none")
              /\ pc' = "done"
              /\ UNCHANGED file_size
         ELSE IF f = "toobig"
         THEN /\ result' = Err("TryFromInt", "the firmware file is too big")
              /\ pc' = "done"
              /\ UNCHANGED file_size
         ELSE /\ file_size' = len
              /\ pc' = "open"
              /\ UNCHANGED result
    /\ UNCHANGED <<notRun, wait, reset, openResult, attempts, notFound, sleeps, bar,
                   counts, completedAt, downloadResult, issued>>

\* download.rs 89-91: the opening phase ends with r
OpenEnds(r) ==
    IF r = "Ok"
    THEN pc' = "opened" /\ UNCHANGED result
    ELSE IF r = "Panic"
    THEN pc' = "done" /\ result' = Panic
    ELSE pc' = "done" /\ result' = Err(r, "could not open device")

\* download.rs 73-74, 89: the first attempt
TryOpenFirst ==
    /\ pc = "open"
    /\ \E r \in TryOpenResults :
         /\ openResult' = r
         /\ attempts' = attempts + 1
         /\ notFound' = IF r = "DeviceNotFound" THEN notFound + 1 ELSE notFound
         /\ IF StartsWaiting(r, wait)
            THEN pc' = "poll" /\ UNCHANGED result
            ELSE OpenEnds(r)
    /\ UNCHANGED <<notRun, wait, reset, file_size, sleeps, bar, counts, completedAt,
                   downloadResult, issued>>

\* PollOnce giving up on the second poll that finds no device
PollOnceBounded ==
    /\ pc = "poll"
    /\ attempts < MaxAttempts
    /\ sleeps' = AfterSleep(sleeps)
    /\ \E r \in TryOpenResults :
         /\ openResult' = r
         /\ attempts' = attempts + 1
         /\ notFound' = IF r = "DeviceNotFound" THEN notFound + 1 ELSE notFound
         /\ IF KeepsWaiting(r) /\ attempts < 2
            THEN pc' = "poll" /\ UNCHANGED result
            ELSE OpenEnds(r)
    /\ UNCHANGED <<notRun, wait, reset, file_size, bar, counts, completedAt,
                   downloadResult, issued>>

\* download.rs 78-87: one iteration of the wait loop
PollOnce ==
    /\ pc = "poll"
    /\ attempts < MaxAttempts
    /\ sleeps' = AfterSleep(sleeps)
    /\ \E r \in TryOpenResults :
         /\ openResult' = r
         /\ attempts' = attempts + 1
         /\ notFound' = IF r = "DeviceNotFound" THEN notFound + 1 ELSE notFound
         /\ IF KeepsWaiting(r)
            THEN pc' = "poll" /\ UNCHANGED result
            ELSE OpenEnds(r)
    /\ UNCHANGED <<notRun, wait, reset, file_size, bar, counts, completedAt,
                   downloadResult, issued>>

\* download.rs 93-119: wrap the adapter, create the bar, register the callback
\* (the bar's template is a fixed, well-formed string: line 101 does not fail)
Setup ==
    /\ pc = "opened"
    /\ bar' = BarNew(file_size)
    /\ pc' = "download"
    /\ UNCHANGED <<notRun, wait, reset, file_size, result, openResult, attempts, notFound,
                   sleeps, counts, completedAt, downloadResult, issued>>

\* download.rs 120, 105-113: the engine writes a block and reports its count.
\* The engine transfers at most the length it was given (file_size), and
\* nothing of an empty image.
DownloadChunk ==
    /\ pc = "download"
    /\ file_size > 0
    /\ Len(counts) < MaxCalls
    /\ \E count \in 0..Min(MaxChunk, file_size - Sum(counts)) :
         LET b1 == ProgressCallback(bar, count, file_size) IN
         /\ bar' = b1
         /\ counts' = Append(counts, count)
         /\ completedAt' =
              IF BecameFinished(bar, b1)
              THEN Append(completedAt, [at |-> "callback", call |-> Len(counts) + 1])
              ELSE completedAt
    /\ UNCHANGED <<notRun, pc, wait, reset, file_size, result, openResult, attempts,
                   notFound, sleeps, downloadResult, issued>>

\* DownloadOk going to the bus reset without the detach request
DownloadOkSkipsDetach ==
    /\ pc = "download"
    /\ Sum(counts) = file_size
    /\ downloadResult' = "Ok"
    /\ bar' = BarFinish(bar)
    /\ completedAt' =
         IF BecameFinished(bar, bar')
         THEN Append(completedAt, [at |-> "return", call |-> 0])
         ELSE completedAt
    /\ IF reset
       THEN pc' = "reset" /\ UNCHANGED result
       ELSE pc' = "done" /\ result' = Ok
    /\ UNCHANGED <<notRun, wait, reset, file_size, openResult, attempts, notFound,
                   sleeps, counts, issued>>

\* DownloadErr whose benign arm does not return (no `return Ok(())`)
DownloadErrFallsThrough ==
    /\ pc = "download"
    /\ file_size > 0
    /\ \E f \in DownloadFailures :
         LET e == DownloadError(f) IN
         /\ downloadResult' = e
         /\ IF IsSelfReset(e, bar.finished)
            THEN IF reset
                 THEN pc' = "detach" /\ UNCHANGED result
                 ELSE pc' = "done" /\ result' = Ok
            ELSE /\ pc' = "done"
                 /\ result' = Err(e, "could not write firmware to the device")
    /\ UNCHANGED <<notRun, wait, reset, file_size, openResult, attempts, notFound,
                   sleeps, bar, counts, completedAt, issued>>

\* download.rs 120-121, 128-130, 141: download returned Ok, which the engine
\* does once every byte is written (at once for an empty image)
DownloadOk ==
    /\ pc = "download"
    /\ Sum(counts) = file_size
    /\ downloadResult' = "Ok"
    /\ bar' = BarFinish(bar)
    /\ completedAt' =
         IF BecameFinished(bar, bar')
         THEN Append(completedAt, [at |-> "return", call |-> 0])
         ELSE completedAt
    /\ IF reset
       THEN pc' = "detach" /\ UNCHANGED result
       ELSE pc' = "done" /\ result' = Ok
    /\ UNCHANGED <<notRun, wait, reset, file_size, openResult, attempts, notFound,
                   sleeps, counts, issued>>

\* download.rs 120, 122-126: download returned an error
DownloadErr ==
    /\ pc = "download"
    /\ file_size > 0
    /\ \E f \in DownloadFailures :
         LET e == DownloadError(f) IN
         /\ downloadResult' = e
         /\ result' = IF IsSelfReset(e, bar.finished)
                      THEN Ok
                      ELSE Err(e, "could not write firmware to the device")
    /\ pc' = "done"
    /\ UNCHANGED <<notRun, wait, reset, file_size, openResult, attempts, notFound,
                   sleeps, bar, counts, completedAt, issued>>

\* Detach with its error propagated (device.detach().await?)
DetachPropagated ==
    /\ pc = "detach"
    /\ \E ok \in BOOLEAN :
         /\ issued' = Append(issued, [op |-> "detach", ok |-> ok])
         /\ IF ok
            THEN pc' = "reset" /\ UNCHANGED result
            ELSE pc' = "done" /\ result' = Err("Dfu", "none")
    /\ UNCHANGED <<notRun, wait, reset, file_size, openResult, attempts, notFound,
                   sleeps, bar, counts, completedAt, downloadResult>>

\* download.rs 136: the detach request, whose result is dropped
Detach ==
    /\ pc = "detach"
    /\ \E ok \in BOOLEAN :
         issued' = Append(issued, [op |-> "detach", ok |-> ok])
    /\ pc' = "reset"
    /\ UNCHANGED <<notRun, result, wait, reset, file_size, openResult, attempts, notFound,
                   sleeps, bar, counts, completedAt, downloadResult>>

\* lib.rs 215-218: the adapter's usb_reset, ok: whether device.reset succeeds
usb_reset(ok) == IF ok THEN "Ok" ELSE "Nusb"

\* download.rs 138-141: the bus reset
UsbReset ==
    /\ pc = "reset"
    /\ \E ok \in BOOLEAN :
         /\ issued' = Append(issued, [op |-> "usb_reset", ok |-> ok])
         /\ result' = IF usb_reset(ok) = "Ok" THEN Ok ELSE Err(usb_reset(ok), "none")
    /\ pc' = "done"
    /\ UNCHANGED <<notRun, wait, reset, file_size, openResult, attempts, notFound,
                   sleeps, bar, counts, completedAt, downloadResult>>

\* Before the call of the specification's operation
NotOpened == [result |-> "none", selected |-> 0, opened |-> FALSE, claimed |-> FALSE]
NotRead == [res |-> "none", n |-> 0, before |-> <<>>, req |-> <<>>]
NotSplit == <<"none", "none">>

NotDfuOpened == OpenDid("none", 0, 0, "", "none")
NoDfuIn == [iface |-> [setAltOk |-> TRUE, alts |-> <<>>], alt |-> 0,
            langs |-> "some", str |-> "err"]

OpenIdle == bus = <<>> /\ target = <<1, 1>> /\ opened = NotOpened
DfuIdle == dfuIn = NoDfuIn /\ dfuOut = NotDfuOpened
NotCalled == [res |-> "none", n |-> 0, buffer |-> <<>>, req |-> <<>>,
              bounded |-> FALSE, secs |-> 0]
NoAdapterCall == [op |-> "none", rt |-> 0, ifnum |-> 0, buf |-> <<>>, ok |-> TRUE,
                  resp |-> <<>>, accepted |-> 0, latency |-> 0, answers |-> TRUE,
                  blocking |-> NotCalled, suspending |-> NotCalled]
AdapterIdle == adapter = NoAdapterCall
NoFlight == [pos |-> "none", reset |-> FALSE, inflight |-> <<>>, log |-> <<>>, n |-> 0]
FlightIdle == flight = NoFlight
NotParsed == [res |-> "none", hi |-> 0, lo |-> 0]
AddrIdle == addr = [s |-> <<>>, out |-> NotParsed]
ExtIdle == DfuIdle /\ AdapterIdle /\ FlightIdle /\ AddrIdle
IoIdle == buffer = <<>> /\ response = <<>> /\ ioResult = NotRead
ClsIdle == request_type = 0 /\ split = NotSplit

Init == RunInit /\ OpenIdle /\ IoIdle /\ ClsIdle /\ ExtIdle

Next ==
    \/ ReadFirmware
    \/ TryOpenFirst
    \/ PollOnce
    \/ Setup
    \/ DownloadChunk
    \/ DownloadOk
    \/ DownloadErr
    \/ Detach
    \/ UsbReset

Spec == Init /\ [][Next]_vars

\* run under its scheduling: the one thread of run takes its next step as long
\* as it has one, every attempt to open and every transfer coming back
SpecLive == Init /\ [][Next]_vars /\ WF_vars(Next)

----------------------------------------------------------------------------
(* Claims about run, checked under Spec *)

\* The progress reported by the first i callbacks
RunningTotal(i) == Sum(SubSeq(counts, 1, i))

\* run has entered the path that follows a successful open (download.rs 93-)
EnteredPostOpen ==
    \/ pc \in {"opened", "download", "detach", "reset"}
    \/ downloadResult # "none"

\* The transport-level variants of Error: a failed control transfer
\* (TransferError) and a failed device operation (nusb::Error)
TransportErrors == {"Nusb", "Transfer"}

\* C1: a download that fails with a transport-level error after the
\* accumulated progress has reached the firmware size makes run return Ok,
\* and one that fails with it below the firmware size makes run return a
\* fatal error.
C1_TransportErrorAfterCompletionIsOk ==
    (pc = "done" /\ downloadResult \in TransportErrors) =>
        IF Sum(counts) = file_size
        THEN result.ret = "Ok"
        ELSE result.ret = "Err"

\* C2: with wait set, when the attempts returned DeviceNotFound N times and
\* then succeeded, exactly N polling delays were performed before the
\* post-open path, which is entered only after the successful attempt.
C2_ExactlyNDelays ==
    /\ (wait /\ EnteredPostOpen) =>
          /\ openResult = "Ok"
          /\ attempts = notFound + 1
          /\ sleeps = notFound
    /\ (wait /\ pc = "poll") =>
          /\ openResult = "DeviceNotFound"
          /\ attempts = notFound
          /\ sleeps = notFound - 1
    /\ pc \in {"start", "open", "poll"} =>
          /\ ~EnteredPostOpen
          /\ bar = BarNew(0) /\ counts = <<>> /\ issued = <<>>

C2_Witness ==
    /\ wait /\ pc = "download"
    /\ notFound = 3 /\ sleeps = 3 /\ attempts = 4

\* C3: a polling delay and a further attempt happen only with wait set and
\* after an attempt that returned DeviceNotFound; an attempt that succeeds
\* or fails with another error ends the opening phase with that result;
\* without wait a DeviceNotFound of the single attempt is fatal.
C3_PollOnlyOnDeviceNotFound ==
    [][ /\ (sleeps' # sleeps \/ (attempts' # attempts /\ attempts >= 1)) =>
              /\ wait
              /\ openResult = "DeviceNotFound"
              /\ sleeps' = sleeps + 1
              /\ attempts' = attempts + 1
        /\ (attempts' # attempts /\ openResult' # "DeviceNotFound") =>
              \/ openResult' = "Ok" /\ pc' = "opened" /\ result' = NoResult
              \/ openResult' = "Panic" /\ pc' = "done" /\ result' = Panic
              \/ /\ openResult' \in ErrorVariants
                 /\ pc' = "done"
                 /\ result' = Err(openResult', "could not open device")
        /\ (attempts' # attempts /\ openResult' = "DeviceNotFound" /\ ~wait) =>
              /\ attempts' = 1
              /\ pc' = "done"
              /\ result' = Err("DeviceNotFound", "could not open device")
        /\ (attempts' # attempts /\ openResult' = "DeviceNotFound" /\ wait) =>
              pc' = "poll" /\ result' = NoResult
      ]_vars

C3_Witness ==
    /\ wait /\ pc = "done"
    /\ sleeps = 2 /\ notFound = 2 /\ attempts = 3
    /\ openResult = "FunctionalDescriptorNotFound"
    /\ result = Err("FunctionalDescriptorNotFound", "could not open device")

\* C4: with reset set and a download that returned Ok, a detach request and
\* then a bus reset are issued; a failing detach neither prevents the bus
\* reset nor fails run, and a failing bus reset makes run fail.
C4_DetachThenReset ==
    (reset /\ downloadResult = "Ok") =>
        /\ pc \in {"detach", "reset", "done"}
        /\ pc = "detach" => issued = <<>> /\ result = NoResult
        /\ pc = "reset" =>
              /\ Len(issued) = 1 /\ issued[1].op = "detach"
              /\ result = NoResult
        /\ pc = "done" =>
              /\ Len(issued) = 2
              /\ issued[1].op = "detach"
              /\ issued[2].op = "usb_reset"
              /\ result = IF issued[2].ok THEN Ok ELSE Err("Nusb", "none")

C4_Witness ==
    /\ reset /\ downloadResult = "Ok" /\ pc = "done"
    /\ Len(issued) = 2
    /\ ~issued[1].ok /\ issued[2].ok
    /\ result = Ok

IssuedOps == [i \in 1..Len(issued) |-> issued[i].op]

\* The download returned an error that run took as the device's own reset
SelfReset == downloadResult = "Nusb" /\ bar.finished

\* C19: when run takes the benign self-reset outcome it returns Ok at once and
\* issues neither the detach request nor the bus reset, reset = true included.
C19_SelfResetReturnsAtOnce ==
    SelfReset => pc = "done" /\ result = Ok /\ issued = <<>>

\* C19: the self-reset outcome taken with reset = true
C19_Witness ==
    SelfReset /\ reset /\ pc = "done" /\ result = Ok /\ issued = <<>>

\* The download returned an error
DownloadFailed == downloadResult \notin {"none", "Ok"}

\* C20: the benign classification applies only to Error::Nusb with the bar
\* finished; a download error of any other variant makes run return the fatal
\* error, whatever the progress.
C20_OnlyNusbWhenFinishedIsBenign ==
    /\ DownloadFailed =>
           /\ pc = "done"
           /\ result = Ok <=> (downloadResult = "Nusb" /\ bar.finished)
           /\ result # Ok =>
                  result = Err(downloadResult, "could not write firmware to the device")
    /\ \A e \in ErrorVariants, f \in BOOLEAN :
           IsSelfReset(e, f) <=> (e = "Nusb" /\ f)

\* C20: a failed control transfer with the bar finished, taken as fatal
C20_Witness ==
    /\ downloadResult = "Transfer" /\ bar.finished /\ bar.pos = file_size
    /\ pc = "done" /\ result.ret = "Err"

\* The order of the states of one invocation: start (Idle: reading the
\* firmware), open (Idle: the first attempt), poll (Waiting), opened (Opened),
\* download (Transferring), detach (Detaching), reset (Resetting), done
StateOrder ==
    {<<"start", "open">>, <<"start", "done">>,
     <<"open", "poll">>, <<"open", "opened">>, <<"open", "done">>,
     <<"poll", "opened">>, <<"poll", "done">>,
     <<"opened", "download">>,
     <<"download", "detach">>, <<"download", "done">>,
     <<"detach", "reset">>,
     <<"reset", "done">>}

\* A step of run that ends the invocation with an error
FailStep == Next /\ pc' = "done" /\ result'.ret = "Err"

\* A step of run that brings it to the state p
Toward(p) == Next /\ pc' = p

\* A terminal failure is one step away, or the state that run is brought to
\* next is one from which it is (the empty image, whose download cannot fail,
\* and the poll the model stops at are left out)
CanFail ==
    /\ pc \in {"start", "open", "reset"} => ENABLED FailStep
    /\ (pc = "poll" /\ attempts < MaxAttempts) => ENABLED FailStep
    /\ (pc = "opened" /\ (file_size > 0 \/ reset)) => ENABLED Toward("download")
    /\ (pc = "download" /\ file_size > 0) => ENABLED FailStep
    /\ (pc = "download" /\ file_size = 0 /\ reset) => ENABLED Toward("detach")
    /\ pc = "detach" => ENABLED Toward("reset")

OnlyNotFound == attempts >= 1 /\ notFound = attempts

\* An attempt to open returned success or another error
AttemptSettled == attempts >= 1 /\ openResult # "DeviceNotFound"

\* A poll that finds no device and keeps run polling
PollAgain == PollOnce /\ pc' = "poll" /\ openResult' = "DeviceNotFound"

\* C18: the wait loop has no retry bound: with wait = true run stays polling
\* for as long as every attempt returns DeviceNotFound, and once an attempt
\* returns success or another error the invocation reaches a terminal state.
C18_WaitLoopUnbounded ==
    /\ []((wait /\ OnlyNotFound) => (pc = "poll" /\ result = NoResult))
    /\ []((pc = "poll" /\ attempts < MaxAttempts) => ENABLED PollAgain)
    /\ (AttemptSettled ~> pc = "done")

\* C18: as many polls as the model follows found no device, run still polling
C18_Witness ==
    wait /\ pc = "poll" /\ attempts = MaxAttempts /\ notFound = MaxAttempts

----------------------------------------------------------------------------
(* SpecTryOpen: one call of try_open *)

OpenInit ==
    /\ bus \in Buses
    /\ target \in Ids \X Ids
    /\ opened = NotOpened

RunIdle ==
    /\ pc = "start" /\ wait = FALSE /\ reset = FALSE /\ file_size = 0
    /\ result = NoResult /\ openResult = "none"
    /\ attempts = 0 /\ notFound = 0 /\ sleeps = 0
    /\ bar = BarNew(0) /\ counts = <<>> /\ completedAt = <<>>
    /\ downloadResult = "none" /\ issued = <<>>

\* download.rs 44-53: the call, over every outcome of the calls it makes
TryOpenCall ==
    /\ opened.result = "none"
    /\ \E listOk \in BOOLEAN, openOk \in BOOLEAN, claimOk \in BOOLEAN,
          dfu \in DfuOpenResults :
         opened' = try_open(bus, target[1], target[2], listOk, openOk, claimOk, dfu)
    /\ UNCHANGED <<runVars, ioVars, clsVars, extVars, bus, target>>

InitTryOpen == RunIdle /\ OpenInit /\ IoIdle /\ ClsIdle /\ ExtIdle
NextTryOpen == TryOpenCall
SpecTryOpen == InitTryOpen /\ [][NextTryOpen]_vars

\* The places of the devices of the bus that have the identifiers asked for
Matching == {i \in 1..Len(bus) : bus[i].vid = target[1] /\ bus[i].pid = target[2]}

\* C10: with no enumerated device matching the pair, try_open returns
\* DeviceNotFound, opens no device and claims no interface; otherwise it
\* selects the first enumerated device that matches both identifiers.
C10_DeviceNotFoundIffNoMatch ==
    (opened.result \notin {"none", "Panic"}) =>
        /\ Matching = {} =>
              /\ opened.result = "DeviceNotFound"
              /\ opened.selected = 0
              /\ ~opened.opened /\ ~opened.claimed
        /\ Matching # {} =>
              /\ opened.result # "DeviceNotFound"
              /\ opened.selected \in Matching
              /\ \A j \in Matching : opened.selected <= j

C10_Witness ==
    /\ Len(bus) = 2
    /\ bus[1].vid = target[1] /\ bus[1].pid # target[2]
    /\ bus[2].vid # target[1] /\ bus[2].pid = target[2]
    /\ opened.result = "DeviceNotFound"

----------------------------------------------------------------------------
(* SpecReadControl: one call of the suspending read_control *)

Bytes == {0, 255}

\* request-type bytes of the DFU requests: class, interface, out and in
DfuRequestTypes == {33, 161}

IoInit ==
    /\ buffer \in SeqsUpTo(Bytes, MaxBuf)
    /\ response \in SeqsUpTo(Bytes, MaxResp)
    /\ ioResult = NotRead

\* lib.rs 173-193: the call
ReadControlCall ==
    /\ ioResult.res = "none"
    /\ \E rt \in DfuRequestTypes, ifnum \in {0, 1}, transferOk \in BOOLEAN :
         LET r == read_control(buffer, rt, 3, 0, ifnum, transferOk, response) IN
         /\ buffer' = r.buffer
         /\ ioResult' = [res |-> r.res, n |-> r.n, before |-> buffer, req |-> r.req]
    /\ UNCHANGED <<runVars, openVars, clsVars, extVars, response>>

InitReadControl == RunIdle /\ OpenIdle /\ IoInit /\ ClsIdle /\ ExtIdle
NextReadControl == ReadControlCall
SpecReadControl == InitReadControl /\ [][NextReadControl]_vars

\* C8: read_control copies the first min(B, R) bytes of the response into the
\* start of the buffer, leaves the rest of the buffer as it was, keeps the
\* buffer's length and returns min(B, R); a buffer of 4 and a response of 8
\* give 4.
C8_ReadControlTruncates ==
    (ioResult.res \notin {"none", "Transfer"}) =>
        LET B == Len(ioResult.before)
            R == Len(response)
            n == ioResult.n
        IN /\ ioResult.res = "Ok"
           /\ n <= B /\ n <= R /\ (n = B \/ n = R)
           /\ Len(buffer) = B
           /\ \A i \in 1..n : buffer[i] = response[i]
           /\ \A i \in (n + 1)..B : buffer[i] = ioResult.before[i]
           /\ (B = 4 /\ R = 8) => n = 4

C8_Witness ==
    /\ ioResult.res = "Ok"
    /\ Len(ioResult.before) = 4 /\ Len(response) = 8
    /\ ioResult.n = 4
    /\ ioResult.before = <<0, 0, 0, 0>>
    /\ buffer = <<255, 255, 255, 255>>

----------------------------------------------------------------------------
(* SpecClassifier: split_request_type over every request-type byte *)

ClsInit ==
    /\ request_type \in RequestTypes
    /\ split = NotSplit

\* lib.rs 85-101: the call
Classify ==
    /\ split = NotSplit
    /\ split' = split_request_type(request_type)
    /\ UNCHANGED <<runVars, openVars, ioVars, extVars, request_type>>

InitClassifier == RunIdle /\ OpenIdle /\ IoIdle /\ ClsInit /\ ExtIdle
NextClassifier == Classify
SpecClassifier == InitClassifier /\ [][NextClassifier]_vars

Bit(n, k) == (n \div (2 ^ k)) % 2

\* C9: every request-type byte decodes; bits 6 and 5 give Standard, Class,
\* Vendor for 00, 01, 10 and Standard for 11; bits 4..0 give Device,
\* Interface, Endpoint, Other for 0..3 and Device for 4..31; neither field
\* depends on the other's bits or on bit 7.
C9_SplitRequestTypeTable ==
    split # NotSplit =>
        LET b(k) == Bit(request_type, k) IN
        /\ split[1] = (IF b(6) = 0 /\ b(5) = 1 THEN "Class"
                       ELSE IF b(6) = 1 /\ b(5) = 0 THEN "Vendor"
                       ELSE "Standard")
        /\ split[2] = (IF b(4) = 1 \/ b(3) = 1 \/ b(2) = 1 THEN "Device"
                       ELSE IF b(1) = 0 /\ b(0) = 1 THEN "Interface"
                       ELSE IF b(1) = 1 /\ b(0) = 0 THEN "Endpoint"
                       ELSE IF b(1) = 1 /\ b(0) = 1 THEN "Other"
                       ELSE "Device")

C9_Witness ==
    /\ request_type = 243
    /\ split = <<"Standard", "Device">>

----------------------------------------------------------------------------
(* SpecDfuOpen: one call of DfuNusb::open *)

DfuInit ==
    /\ dfuIn \in [iface : Interfaces, alt : 0..(MaxAlts - 1),
                  langs : LangResults, str : StringResults]
    /\ dfuOut = NotDfuOpened

\* lib.rs 39-72: the call
DfuOpenCall ==
    /\ dfuOut.result = "none"
    /\ dfuOut' = DfuNusbOpenSteps(dfuIn.iface, dfuIn.alt, dfuIn.langs, dfuIn.str)
    /\ UNCHANGED <<runVars, openVars, ioVars, clsVars, dfuIn, adapter, flight, addr>>

InitDfuOpen ==
    /\ RunIdle /\ OpenIdle /\ IoIdle /\ ClsIdle
    /\ DfuInit /\ AdapterIdle /\ FlightIdle /\ AddrIdle
NextDfuOpen == DfuOpenCall
SpecDfuOpen == InitDfuOpen /\ [][NextDfuOpen]_vars

\* The alternate settings of the interface, by place
Alts == dfuIn.iface.alts

\* The places of the alternate settings with the requested number
Requested == {i \in 1..Len(Alts) : Alts[i].num = dfuIn.alt}

\* The places of the alternate settings that carry a functional descriptor
Carrying == {i \in 1..Len(Alts) : Alts[i].fd # "none"}

\* The least element of a non-empty set of places
Least(S) == CHOOSE i \in S : \A j \in S : i <= j

\* The call has returned
DfuOpenReturned == dfuOut.result # "none"

\* C11 as stated: DfuNusb::open searches only the requested alternate setting
\* for the functional descriptor: it fails with FunctionalDescriptorNotFound
\* whenever the requested alternate setting carries none, and the functional
\* descriptor used is never the one of another alternate setting.
C11_OnlyRequestedAltSearched ==
    (DfuOpenReturned /\ dfuIn.iface.setAltOk /\ Requested # {}) =>
        /\ (\A i \in Requested : Alts[i].fd = "none")
               => dfuOut.result = "FunctionalDescriptorNotFound"
        /\ dfuOut.fdFrom # 0 => dfuOut.fdFrom \in Requested

\* C11 amended: DfuNusb::open searches the alternate settings of the interface
\* in order and uses the first functional descriptor found, whichever
\* alternate setting carries it: it fails with FunctionalDescriptorNotFound
\* exactly when the alternate setting was set and no alternate setting of the
\* interface carries a functional descriptor.
C11_FirstOfEveryAltSearched ==
    (DfuOpenReturned /\ dfuIn.iface.setAltOk) =>
        /\ dfuOut.result = "FunctionalDescriptorNotFound" <=> Carrying = {}
        /\ dfuOut.fdFrom = (IF Carrying = {} THEN 0 ELSE Least(Carrying))

\* C11: the requested alternate setting carries no functional descriptor,
\* another one does, and open succeeded with the descriptor of the other
C11_Witness ==
    /\ DfuOpenReturned /\ dfuIn.iface.setAltOk
    /\ Requested # {} /\ \A i \in Requested : Alts[i].fd = "none"
    /\ dfuOut.result = "Ok"
    /\ dfuOut.fdFrom # 0 /\ dfuOut.fdFrom \notin Requested

\* The alternate setting found by number has a string index, and a query of
\* the string resolution failed
StringResolutionFailed ==
    /\ dfuOut.altIdx # 0
    /\ Alts[dfuOut.altIdx].strIdx # 0
    /\ (dfuIn.langs = "err" \/ dfuIn.str = "err")

\* C12: when the alternate setting has a string index, any failure of the
\* string resolution (the supported-languages query or the string fetch)
\* yields the empty string and open goes on to the protocol construction.
C12_StringFailureYieldsEmpty ==
    (DfuOpenReturned /\ StringResolutionFailed) =>
        dfuOut.step = "protocol" /\ dfuOut.s = ""

\* The first functional descriptor of the interface parses
Parsed == Carrying # {} /\ Alts[Least(Carrying)].fd = "ok"

\* The string resolution fails open: the alternate setting found by number has
\* a string index and the supported-languages query failed
StringStepFails ==
    /\ Requested # {}
    /\ Alts[Least(Requested)].strIdx # 0
    /\ dfuIn.langs = "err"

\* The interface string handed to the protocol construction
ResolvedString ==
    IF Requested = {} \/ Alts[Least(Requested)].strIdx = 0 \/ dfuIn.str = "err"
    THEN "" ELSE dfuIn.str

\* C17: DfuNusb::open reports the error of the first failing step, in the
\* order set alternate setting, find and parse the functional descriptor,
\* re-locate the alternate setting by number, resolve the string, construct
\* the protocol; AltSettingNotFound exactly when the alternate setting was
\* set, a functional descriptor was found and parsed and no alternate setting
\* has the requested number; an adapter only when every step succeeded.
C17_FirstFailingStep ==
    DfuOpenReturned =>
        /\ ~dfuIn.iface.setAltOk => dfuOut.result = "Nusb"
        /\ (dfuIn.iface.setAltOk /\ Carrying = {})
               => dfuOut.result = "FunctionalDescriptorNotFound"
        /\ (dfuIn.iface.setAltOk /\ Carrying # {} /\ ~Parsed)
               => dfuOut.result = "FunctionalDescriptor"
        /\ (dfuIn.iface.setAltOk /\ Parsed /\ Requested = {})
               => dfuOut.result = "AltSettingNotFound"
        /\ (dfuIn.iface.setAltOk /\ Parsed /\ StringStepFails)
               => dfuOut.result = "Nusb"
        /\ (dfuIn.iface.setAltOk /\ Parsed /\ Requested # {} /\ ~StringStepFails)
               => dfuOut.result = ProtocolNew(ResolvedString)
        /\ dfuOut.result = "AltSettingNotFound"
               <=> (dfuIn.iface.setAltOk /\ Parsed /\ Requested = {})
        /\ dfuOut.result = "Ok"
               => /\ dfuIn.iface.setAltOk /\ Parsed /\ Requested # {}
                  /\ ~StringStepFails /\ ProtocolNew(ResolvedString) = "Ok"

\* C17: the alternate setting was set, a functional descriptor was found and
\* parsed, and open failed for want of an alternate setting with the number
C17_Witness ==
    /\ DfuOpenReturned
    /\ dfuIn.iface.setAltOk /\ Parsed /\ Requested = {}
    /\ Len(Alts) = MaxAlts
    /\ dfuOut.result = "AltSettingNotFound"

----------------------------------------------------------------------------
(* SpecAdapter: one operation through the blocking and the suspending adapter *)

\* What an adapter operation gave: the result, the byte count, the caller's
\* buffer afterwards, the request as built, and the bound on its duration
Gave(res, n, buf, req, bounded, secs) ==
    [res |-> res, n |-> n, buffer |-> buf, req |-> req,
     bounded |-> bounded, secs |-> secs]

\* lib.rs 125-127, 146-148: the blocking transfer gives up after the timeout
TimedOut(answers, latency) == ~answers \/ latency > TimeoutSecs

\* lib.rs 117-123, 138-144: the Control request of the blocking variant; the
\* length of the transfer is the length of the buffer passed with it
Control(rt, request, value, ifnum, buf) ==
    [control_type |-> split_request_type(rt)[1],
     recipient |-> split_request_type(rt)[2],
     request |-> request,
     value |-> value,
     index |-> ifnum,
     length |-> Len(buf) % 65536]

\* lib.rs 202-209: the ControlOut request of the suspending variant
ControlOut(rt, request, value, ifnum, buf) ==
    [control_type |-> split_request_type(rt)[1],
     recipient |-> split_request_type(rt)[2],
     request |-> request,
     value |-> value,
     index |-> ifnum,
     length |-> Len(buf) % 65536]

\* lib.rs 110-129: DfuIo::read_control
read_control_blocking(buf, rt, request, value, ifnum, t) ==
    LET req == Control(rt, request, value, ifnum, buf) IN
    IF TimedOut(t.answers, t.latency) \/ ~t.ok
    THEN Gave("Transfer", 0, buf, req, TRUE, TimeoutSecs)
    ELSE LET n == Min(Len(buf), Len(t.resp)) IN
         Gave("Ok", n, [i \in 1..Len(buf) |-> IF i <= n THEN t.resp[i] ELSE buf[i]],
              req, TRUE, TimeoutSecs)

\* lib.rs 173-193: DfuAsyncIo::read_control, which does not return while the
\* device does not answer
read_control_suspending(buf, rt, request, value, ifnum, t) ==
    IF ~t.answers
    THEN Gave("Pending", 0, buf, ControlIn(rt, request, value, ifnum, buf), FALSE, 0)
    ELSE LET r == read_control(buf, rt, request, value, ifnum, t.ok, t.resp) IN
         Gave(r.res, r.n, r.buffer, r.req, FALSE, 0)

\* lib.rs 131-150: DfuIo::write_control
write_control_blocking(buf, rt, request, value, ifnum, t) ==
    LET req == Control(rt, request, value, ifnum, buf) IN
    IF TimedOut(t.answers, t.latency) \/ ~t.ok
    THEN Gave("Transfer", 0, buf, req, TRUE, TimeoutSecs)
    ELSE Gave("Ok", Min(t.accepted, Len(buf)), buf, req, TRUE, TimeoutSecs)

\* lib.rs 195-213: DfuAsyncIo::write_control
write_control(buf, rt, request, value, ifnum, t) ==
    LET req == ControlOut(rt, request, value, ifnum, buf) IN
    IF ~t.answers THEN Gave("Pending", 0, buf, req, FALSE, 0)
    ELSE IF ~t.ok THEN Gave("Transfer", 0, buf, req, FALSE, 0)
    ELSE Gave("Ok", Min(t.accepted, Len(buf)), buf, req, FALSE, 0)

\* lib.rs 152-155 and 215-218: usb_reset of either variant; device.reset
\* takes no timeout and is not awaited
usb_reset_either(t) == Gave(usb_reset(t.ok), 0, <<>>, <<>>, FALSE, 0)

\* The operation of the adapter through the blocking variant
BlockingGave(a) ==
    CASE a.op = "read_control" -> read_control_blocking(a.buf, a.rt, 3, 0, a.ifnum, a)
      [] a.op = "write_control" -> write_control_blocking(a.buf, a.rt, 1, 0, a.ifnum, a)
      [] OTHER -> usb_reset_either(a)

\* The operation of the adapter through the suspending variant
SuspendingGave(a) ==
    CASE a.op = "read_control" -> read_control_suspending(a.buf, a.rt, 3, 0, a.ifnum, a)
      [] a.op = "write_control" -> write_control(a.buf, a.rt, 1, 0, a.ifnum, a)
      [] OTHER -> usb_reset_either(a)

\* The calls followed, each with the transport behaviour of its transfer:
\* whether the device answers at all, after how many seconds, whether the
\* transfer succeeds, the bytes sent (in) or the number accepted (out)
AdapterCalls ==
    [op : {"read_control"}, rt : {161}, ifnum : {0, 1},
     buf : SeqsUpTo(Bytes, MaxIoLen), ok : BOOLEAN,
     resp : SeqsUpTo(Bytes, MaxIoLen), accepted : {0},
     latency : 0..MaxLatency, answers : BOOLEAN,
     blocking : {NotCalled}, suspending : {NotCalled}]
    \cup
    [op : {"write_control"}, rt : {33}, ifnum : {0, 1},
     buf : SeqsUpTo(Bytes, MaxIoLen), ok : BOOLEAN,
     resp : {<<>>}, accepted : 0..MaxIoLen,
     latency : 0..MaxLatency, answers : BOOLEAN,
     blocking : {NotCalled}, suspending : {NotCalled}]
    \cup
    [op : {"usb_reset"}, rt : {0}, ifnum : {0, 1},
     buf : {<<>>}, ok : BOOLEAN,
     resp : {<<>>}, accepted : {0},
     latency : {0}, answers : {TRUE},
     blocking : {NotCalled}, suspending : {NotCalled}]

AdapterInit == adapter \in AdapterCalls

\* lib.rs 103-164: the operation made through DfuIo
BlockingCall ==
    /\ adapter.op # "none"
    /\ adapter.blocking.res = "none"
    /\ adapter' = [adapter EXCEPT !.blocking = BlockingGave(adapter)]
    /\ UNCHANGED <<runVars, openVars, ioVars, clsVars, dfuIn, dfuOut, flight, addr>>

\* lib.rs 166-227: the operation made through DfuAsyncIo
SuspendingCall ==
    /\ adapter.op # "none"
    /\ adapter.suspending.res = "none"
    /\ adapter' = [adapter EXCEPT !.suspending = SuspendingGave(adapter)]
    /\ UNCHANGED <<runVars, openVars, ioVars, clsVars, dfuIn, dfuOut, flight, addr>>

InitAdapter ==
    /\ RunIdle /\ OpenIdle /\ IoIdle /\ ClsIdle
    /\ DfuIdle /\ AdapterInit /\ FlightIdle /\ AddrIdle
NextAdapter ==
    \/ BlockingCall
    \/ SuspendingCall
SpecAdapter == InitAdapter /\ [][NextAdapter]_vars

\* The fields of a control request that the two variants have in common
RequestFields(req) ==
    IF req = <<>> THEN <<>>
    ELSE <<req.control_type, req.recipient, req.request, req.value, req.index>>

\* C13: the blocking and the suspending adapter are equivalent but for
\* suspension: for the same call and the same transport behaviour they build
\* the same control request, are bounded by the same timeout and return the
\* same byte count or the same error.
C13_AdaptersEquivalent ==
    (adapter.blocking.res # "none" /\ adapter.suspending.res # "none") =>
        /\ RequestFields(adapter.blocking.req) = RequestFields(adapter.suspending.req)
        /\ adapter.blocking.bounded = adapter.suspending.bounded
        /\ adapter.blocking.secs = adapter.suspending.secs
        /\ adapter.blocking.res = adapter.suspending.res
        /\ adapter.blocking.n = adapter.suspending.n
        /\ adapter.blocking.buffer = adapter.suspending.buffer

----------------------------------------------------------------------------
(* SpecFlight: the adapter operations of one run, issued and completed *)

\* An operation of the adapter may be issued at every moment
CanIssueAlways(inflight) == TRUE

\* lib.rs 189, 211 and download.rs 120, 133, 138: every operation is awaited
\* where it is issued, so the next one is issued with none in flight
CanIssue(inflight) == inflight = <<>>

\* The n-th operation of the invocation is issued
Issue(f, op) ==
    [f EXCEPT !.inflight = Append(@, [op |-> op, n |-> f.n + 1]),
              !.log = Append(@, [ev |-> "issue", op |-> op, n |-> f.n + 1]),
              !.n = @ + 1]

\* The oldest operation in flight completes
Complete(f) ==
    [f EXCEPT !.inflight = Tail(@),
              !.log = Append(@, [ev |-> "complete", op |-> Head(f.inflight).op,
                                 n |-> Head(f.inflight).n])]

FlightInit ==
    flight \in [pos : {"download"}, reset : BOOLEAN, inflight : {<<>>},
                log : {<<>>}, n : {0}]

\* download.rs 120: the engine, inside download, calls read_control or
\* write_control of the adapter
EngineIssue ==
    /\ flight.pos = "download"
    /\ flight.n < MaxOps
    /\ CanIssue(flight.inflight)
    /\ \E op \in {"read_control", "write_control"} : flight' = Issue(flight, op)
    /\ UNCHANGED <<runVars, openVars, ioVars, clsVars, dfuIn, dfuOut, adapter, addr>>

\* lib.rs 189, 211, download.rs 133, 138: the awaited operation completes; a
\* failed transfer ends the download, the result of detach is dropped
OperationCompletes ==
    /\ flight.inflight # <<>>
    /\ \E ok \in BOOLEAN :
         flight' = [Complete(flight) EXCEPT !.pos =
                       CASE flight.pos = "download" -> IF ok THEN "download" ELSE "done"
                         [] flight.pos = "detaching" -> "reset"
                         [] flight.pos = "resetting" -> "done"
                         [] OTHER -> flight.pos]
    /\ UNCHANGED <<runVars, openVars, ioVars, clsVars, dfuIn, dfuOut, adapter, addr>>

\* download.rs 120-130: download returns Ok
DownloadReturns ==
    /\ flight.pos = "download"
    /\ flight.inflight = <<>>
    /\ flight' = [flight EXCEPT !.pos = IF flight.reset THEN "detach" ELSE "done"]
    /\ UNCHANGED <<runVars, openVars, ioVars, clsVars, dfuIn, dfuOut, adapter, addr>>

\* download.rs 133: the detach request, a control-out transfer
DetachIssue ==
    /\ flight.pos = "detach"
    /\ CanIssue(flight.inflight)
    /\ flight' = [Issue(flight, "write_control") EXCEPT !.pos = "detaching"]
    /\ UNCHANGED <<runVars, openVars, ioVars, clsVars, dfuIn, dfuOut, adapter, addr>>

\* download.rs 138: the bus reset
ResetIssue ==
    /\ flight.pos = "reset"
    /\ CanIssue(flight.inflight)
    /\ flight' = [Issue(flight, "usb_reset") EXCEPT !.pos = "resetting"]
    /\ UNCHANGED <<runVars, openVars, ioVars, clsVars, dfuIn, dfuOut, adapter, addr>>

InitFlight ==
    /\ RunIdle /\ OpenIdle /\ IoIdle /\ ClsIdle
    /\ DfuIdle /\ AdapterIdle /\ FlightInit /\ AddrIdle
NextFlight ==
    \/ EngineIssue
    \/ OperationCompletes
    \/ DownloadReturns
    \/ DetachIssue
    \/ ResetIssue
SpecFlight == InitFlight /\ [][NextFlight]_vars

----------------------------------------------------------------------------
(* SpecParseAddress: parse_address, download.rs 154-160 *)

\* A string is the sequence of its characters. A u32 is kept as its two
\* 16-bit halves, hi * 65536 + lo.

Half == 65536

LowerCase == <<"0", "1", "2", "3", "4", "5", "6", "7", "8", "9",
               "a", "b", "c", "d", "e", "f">>
UpperCase == <<"0", "1", "2", "3", "4", "5", "6", "7", "8", "9",
               "A", "B", "C", "D", "E", "F">>

\* char::to_digit: the value of c as a digit of the radix, -1: not a digit
ToDigit(c, radix) ==
    IF \E d \in 1..radix : LowerCase[d] = c \/ UpperCase[d] = c
    THEN (CHOOSE d \in 1..radix : LowerCase[d] = c \/ UpperCase[d] = c) - 1
    ELSE -1

\* u8::to_ascii_lowercase on the characters followed
ToAsciiLowercase(c) ==
    IF c = "X" THEN "x"
    ELSE IF \E d \in 11..16 : UpperCase[d] = c
    THEN LowerCase[CHOOSE d \in 11..16 : UpperCase[d] = c]
    ELSE c

\* download.rs 155: s.to_ascii_lowercase().starts_with("0x")
StartsWith0x(s) ==
    Len(s) >= 2 /\ ToAsciiLowercase(s[1]) = "0" /\ ToAsciiLowercase(s[2]) = "x"

\* core::num: the digits accumulated with checked_mul and checked_add
RECURSIVE Accumulate(_, _, _, _)
Accumulate(digits, radix, hi, lo) ==
    IF digits = <<>> THEN [res |-> "Ok", hi |-> hi, lo |-> lo]
    ELSE LET d == ToDigit(Head(digits), radix) IN
         IF d < 0 THEN [res |-> "Err", hi |-> 0, lo |-> 0]
         ELSE LET l == lo * radix + d
                  h == hi * radix + (l \div Half) IN
              IF h >= Half THEN [res |-> "Err", hi |-> 0, lo |-> 0]
              ELSE Accumulate(Tail(digits), radix, h, l % Half)

\* u32::from_str_radix: an empty string and a lone sign are errors, a leading
\* "+" is skipped, the rest must be digits of the radix and fit in 32 bits
from_str_radix(src, radix) ==
    IF src = <<>> THEN [res |-> "Err", hi |-> 0, lo |-> 0]
    ELSE IF Head(src) \in {"+", "-"} /\ Tail(src) = <<>>
    THEN [res |-> "Err", hi |-> 0, lo |-> 0]
    ELSE IF Head(src) = "+" THEN Accumulate(Tail(src), radix, 0, 0)
    ELSE Accumulate(src, radix, 0, 0)

\* download.rs 154-160
parse_address(s) ==
    IF StartsWith0x(s)
    THEN from_str_radix(SubSeq(s, 3, Len(s)), 16)
    ELSE from_str_radix(s, 10)

\* The characters followed
Chars == {"0", "1", "9", "a", "F", "g", "x", "X", "+"}

\* The examples of the specification and the ends of the 32-bit range
Example0x0800C000 == <<"0", "x", "0", "8", "0", "0", "C", "0", "0", "0">>
Example2048 == <<"2", "0", "4", "8">>
Examples ==
    {Example0x0800C000, Example2048,
     <<"4", "2", "9", "4", "9", "6", "7", "2", "9", "5">>,
     <<"4", "2", "9", "4", "9", "6", "7", "2", "9", "6">>,
     <<"0", "x", "F", "F", "F", "F", "F", "F", "F", "F">>,
     <<"0", "x", "1", "0", "0", "0", "0", "0", "0", "0", "0">>,
     <<"0", "x", "0", "0", "0", "0", "0", "0", "0", "0", "0", "0", "0", "C">>}

AddrInit ==
    /\ addr \in [s : SeqsUpTo(Chars, MaxStr) \cup Examples, out : {NotParsed}]

\* download.rs 154-160: the call
ParseAddressCall ==
    /\ addr.out.res = "none"
    /\ addr' = [addr EXCEPT !.out = parse_address(addr.s)]
    /\ UNCHANGED <<runVars, openVars, ioVars, clsVars, dfuIn, dfuOut, adapter, flight>>

InitParseAddress ==
    /\ RunIdle /\ OpenIdle /\ IoIdle /\ ClsIdle
    /\ DfuIdle /\ AdapterIdle /\ FlightIdle /\ AddrInit
NextParseAddress == ParseAddressCall
SpecParseAddress == InitParseAddress /\ [][NextParseAddress]_vars

\* Every character of t is a digit of the radix, and there is one
AllDigits(t, radix) ==
    t # <<>> /\ \A i \in 1..Len(t) : ToDigit(t[i], radix) >= 0

\* t without its leading zeros
RECURSIVE Significant(_)
Significant(t) ==
    IF t # <<>> /\ Head(t) = "0" THEN Significant(Tail(t)) ELSE t

\* The digits a and b of equal number, a at most b as a number
RECURSIVE AtMost(_, _)
AtMost(a, b) ==
    \/ a = <<>>
    \/ ToDigit(Head(a), 10) < ToDigit(Head(b), 10)
    \/ ToDigit(Head(a), 10) = ToDigit(Head(b), 10) /\ AtMost(Tail(a), Tail(b))

\* The digits of a valid decimal number: digits only, or a "+" before them
DecimalDigits(s) ==
    IF s # <<>> /\ Head(s) = "+" THEN Tail(s) ELSE s

\* s is a decimal number that fits in 32 bits
ValidDecimal(s) ==
    /\ ~StartsWith0x(s)
    /\ AllDigits(DecimalDigits(s), 10)
    /\ LET t == Significant(DecimalDigits(s)) IN
       \/ Len(t) < 10
       \/ Len(t) = 10 /\ AtMost(t, <<"4", "2", "9", "4", "9", "6", "7", "2", "9", "5">>)

\* s is a hexadecimal number with the prefix 0x or 0X that fits in 32 bits
ValidPrefixedHex(s) ==
    /\ Len(s) >= 3
    /\ s[1] = "0" /\ s[2] \in {"x", "X"}
    /\ AllDigits(SubSeq(s, 3, Len(s)), 16)
    /\ Len(Significant(SubSeq(s, 3, Len(s)))) <= 8

\* The value of the digits t in the radix, for a number below 2^31
RECURSIVE SmallValue(_, _, _)
SmallValue(t, radix, acc) ==
    IF t = <<>> THEN acc
    ELSE SmallValue(Tail(t), radix, acc * radix + ToDigit(Head(t), radix))

\* The value of a valid s is below 2^31
IsSmall(s) ==
    \/ ValidDecimal(s) /\ Len(Significant(DecimalDigits(s))) <= 9
    \/ ValidPrefixedHex(s) /\ Len(Significant(SubSeq(s, 3, Len(s)))) <= 7

\* The value of such an s
ValueOf(s) ==
    IF ValidPrefixedHex(s)
    THEN SmallValue(Significant(SubSeq(s, 3, Len(s))), 16, 0)
    ELSE SmallValue(Significant(DecimalDigits(s)), 10, 0)

\* C15: parse_address accepts a decimal string or a hexadecimal string with a
\* case-insensitive 0x prefix and returns its value as a u32 ("0x0800C000"
\* gives 0x0800C000, "2048" gives 2048), and returns a parse error for every
\* input that is neither, or that does not fit in 32 bits.
C15_ParseAddress ==
    addr.out.res # "none" =>
        /\ addr.out.res = "Ok" <=> (ValidDecimal(addr.s) \/ ValidPrefixedHex(addr.s))
        /\ (addr.out.res = "Ok" /\ IsSmall(addr.s))
               => addr.out.hi * Half + addr.out.lo = ValueOf(addr.s)
        /\ addr.s = Example0x0800C000
               => addr.out = [res |-> "Ok", hi |-> 2048, lo |-> 49152]
        /\ addr.s = Example2048
               => addr.out = [res |-> "Ok", hi |-> 0, lo |-> 2048]

====
